---- MODULE Spec2Model ----
(***************************************************************************)
(* Garbage Free City (GFC) backend: the report lifecycle, the payment      *)
(* webhooks and the collector operations, as the Express handlers and the  *)
(* Supabase tables implement them.                                         *)
(*                                                                         *)
(* Tables are sequences of rows; a row's id is its index.  A payment's     *)
(* flw_ref (txRef / merchantRef, UNIQUE, generated per initiation) is      *)
(* identified with the payment's index.  Handlers that await between a     *)
(* read and a write of the same table (assign, the webhooks) are split at  *)
(* the await; every other handler is one step.                             *)
(***************************************************************************)
EXTENDS Integers, Sequences, FiniteSets, TLC

\* ----- bounds ------------------------------------------------------------
MaxReports == 2
MaxPayments == 3
MaxLogs == 1
MaxSms == 2
MaxTime == 1
NumCollectors == 2
NumResidents == 1
NumHooks == 1
MaxLatitude == 2
NumRanked == 6
NumRegistrations == 2
NumPhones == 2
MaxUsers == 3

\* ----- identifiers ---------------------------------------------------------
NULL == 0
Collectors == 1..NumCollectors
Residents == {100 + i : i \in 1..NumResidents}
Users == Collectors \cup Residents
Hooks == 1..NumHooks
Times == 1..MaxTime
ReportIds == 1..MaxReports
PaymentRefs == 1..MaxPayments
Registrations == 1..NumRegistrations
PhoneNumbers == 1..NumPhones

\* schema.sql CHECK constraints
ReportStatuses == {"pending", "assigned", "in_progress", "completed", "cancelled"}
PaymentStatuses == {"pending", "processing", "successful", "failed", "cancelled"}

\* gateway vocabularies (inputs of the two webhooks); "undefined": the status
\* field is missing from the payload
FlutterwaveStatuses == {"successful", "failed", "cancelled", "pending", "unknown", "undefined"}
PesapalStatuses == {"Completed", "Failed", "Invalid", "Reversed", "Pending", "unknown", "undefined"}
Gateways == {"flutterwave", "pesapal"}

\* schema.sql: user_type IN ('resident', 'collector')
UserTypes == {"resident", "collector"}

\* a GEOGRAPHY(POINT): POINT(longitude latitude); a NULL location is << >>
Point(longitude, latitude) == <<longitude, latitude>>
NoLocation == << >>
Latitudes == 1..MaxLatitude
Longitudes == {1}
Locations == {Point(longitude, latitude) : longitude \in Longitudes, latitude \in Latitudes}

\* a missing coordinate of a request body (0 is as falsy as a missing one)
Coordinates(values) == {NULL} \cup values

\* the bearer token of a request: none, one that jwt.verify refuses, or one
\* that decodes to a user id (of a user that exists or of one that was deleted)
BadToken == 0 - 1
DeletedUser == 100 + NumResidents + 1

\* process.env: a function from the names that are set to their values; a
\* value is a string of decimal digits
DEFAULT_COLLECTION_FEE == 5000
EnvUnset == << >>
EnvFee(digits) == [DEFAULT_COLLECTION_FEE |-> digits]
Environments == {EnvUnset, EnvFee(<< >>), EnvFee(<<7, 0, 0, 0>>)}

\* parseFloat of a string of decimal digits
RECURSIVE parseFloat(_)
parseFloat(digits) ==
    IF Len(digits) = 0 THEN 0
    ELSE 10 * parseFloat(SubSeq(digits, 1, Len(digits) - 1)) + digits[Len(digits)]

\* variant: the fee is the fixed default, whatever is configured
fixedFee(env) == DEFAULT_COLLECTION_FEE

\* parseFloat(process.env.DEFAULT_COLLECTION_FEE || 5000): an unset variable
\* and an empty one are falsy
collectionFee(env) ==
    IF "DEFAULT_COLLECTION_FEE" \in DOMAIN env /\ env.DEFAULT_COLLECTION_FEE # << >>
    THEN parseFloat(env.DEFAULT_COLLECTION_FEE)
    ELSE DEFAULT_COLLECTION_FEE

VARIABLES
    garbage_reports,   \* table garbage_reports
    payments,          \* table payments
    collection_logs,   \* table collection_logs
    assignReq,         \* per collector: the PATCH /:id/assign request in flight
    hook,              \* per webhook worker: the callback in flight
    sms,               \* per payment: sendSMSNotification calls, by kind
    gatewayReqs,       \* per payment: charge requests issued to the gateway
    res,               \* the last HTTP response
    users,             \* table users, by id
    nearest,           \* the last find_nearest_collector call and its rows
    registerReq        \* per registration worker: the POST /register in flight

vars == <<garbage_reports, payments, collection_logs, assignReq, hook, sms,
          gatewayReqs, res, users, nearest, registerReq>>

\* ----- helpers ---------------------------------------------------------------
ReportExists(id) == id \in 1..Len(garbage_reports)
PaymentExists(ref) == ref \in 1..Len(payments)

\* rows of payments embedded in a report: select('*, payments(*)')
PaymentsOf(id) == {p \in 1..Len(payments) : payments[p].report_id = id}

SuccessfulPaymentsOf(id) == {p \in PaymentsOf(id) : payments[p].payment_status = "successful"}

Reply(op, code) == [op |-> op, code |-> code]

IdleAssign == [report |-> NULL]
IdleHook == [pc |-> "idle", ref |-> NULL, paymentStatus |-> "none"]

RECURSIVE SumSms(_)
SumSms(n) == IF n = 0 THEN 0 ELSE sms[n].successful + sms[n].failed + SumSms(n - 1)

NotifyingHooks == {h \in Hooks : hook[h].pc # "idle" /\ hook[h].paymentStatus \in {"successful", "failed"}}

NoCall == [report_uuid |-> NULL, asked_at |-> NULL, rows |-> << >>]

IdleRegister == [pc |-> "idle"]
NoRegistrations == [r \in Registrations |-> IdleRegister]

\* a row of users: POST /register inserts it active and without current_location
userRow(user_type, is_active, current_location, updated_at) ==
    [user_type |-> user_type, is_active |-> is_active,
     current_location |-> current_location, updated_at |-> updated_at]

registeredUsers ==
    [u \in Users |-> userRow(IF u \in Collectors THEN "collector" ELSE "resident",
                             TRUE, NoLocation, 1)]

\* ----- initial state -----------------------------------------------------------
Init ==
    /\ garbage_reports = << >>
    /\ payments = << >>
    /\ collection_logs = << >>
    /\ assignReq = [c \in Users |-> IdleAssign]
    /\ hook = [h \in Hooks |-> IdleHook]
    /\ sms = [p \in PaymentRefs |-> [successful |-> 0, failed |-> 0]]
    /\ gatewayReqs = [p \in PaymentRefs |-> 0]
    /\ res = Reply("none", 0)
    /\ users = registeredUsers
    /\ nearest = NoCall
    /\ registerReq = NoRegistrations

\* ----- POST /api/garbage-reports -------------------------------------------
createReport(u, env, longitude, latitude, fault, t) ==
    /\ Len(garbage_reports) < MaxReports
    /\ IF fault = "invalid"
       THEN /\ res' = Reply("createReport", 400)
            /\ UNCHANGED garbage_reports
       ELSE IF fault = "insert"
       THEN /\ res' = Reply("createReport", 500)
            /\ UNCHANGED garbage_reports
       ELSE /\ garbage_reports' = Append(garbage_reports,
                   [resident_id |-> u, location |-> Point(longitude, latitude),
                    status |-> "pending", payment_amount |-> collectionFee(env),
                    assigned_collector_id |-> NULL, assigned_at |-> NULL,
                    completed_at |-> NULL])
            /\ res' = Reply("createReport", 201)
    /\ UNCHANGED <<payments, collection_logs, assignReq, hook, sms, gatewayReqs, users, nearest, registerReq>>

\* ----- POST /api/payments/initiate (Flutterwave and Pesapal variants) ---------
\* supabase .single(): a row only when exactly one row matches, else data = null
single(rows) == IF Cardinality(rows) = 1 THEN CHOOSE p \in rows : TRUE ELSE NULL

existingPayment(report_id) == single(SuccessfulPaymentsOf(report_id))

\* initiatePaymentSchema: amount is optional, Joi.number().min(1000).max(1000000)
MinAmount == 1000
MaxAmount == 1000000
validAmount(amount) == amount = NULL \/ (amount >= MinAmount /\ amount =< MaxAmount)

\* what a gateway reports of a charge
Payload(amount, currency) == [amount |-> amount, currency |-> currency]

\* column webhook_response before any callback (SQL NULL): a payload without values
NoResponse == Payload(NULL, "")

\* variant: the payment is inserted as already successful
paidPaymentRecord(report_id, u, txRef, amount) ==
    [report_id |-> report_id, resident_id |-> u, flw_ref |-> txRef,
     amount |-> amount, currency |-> "UGX", webhook_response |-> NoResponse,
     payment_status |-> "successful", completed_at |-> NULL]

\* the row the initiation inserts
paymentRecord(report_id, u, txRef, amount) ==
    [report_id |-> report_id, resident_id |-> u, flw_ref |-> txRef,
     amount |-> amount, currency |-> "UGX", webhook_response |-> NoResponse,
     payment_status |-> "pending", completed_at |-> NULL]

\* variant: flw_ref without its UNIQUE constraint
flwRefFree(txRef) == FALSE

\* schema.sql: flw_ref VARCHAR(100) UNIQUE; an insert repeating a reference fails
flwRefTaken(txRef) == \E p \in 1..Len(payments) : payments[p].flw_ref = txRef

\* amount: value.amount (NULL: the body names none); txRef: the reference the
\* handler generates from the clock and a random part, the next fresh one or one
\* that a payment already has; fault = "invalid": another field of the body
\* fails the validation
initiatePayment(u, report_id, amount, txRef, fault, t) ==
    /\ IF fault = "invalid" \/ ~validAmount(amount)
       THEN /\ res' = Reply("initiate", 400)
            /\ UNCHANGED <<payments, gatewayReqs>>
       ELSE IF ~ReportExists(report_id) \/ garbage_reports[report_id].resident_id # u
       THEN /\ res' = Reply("initiate", 404)
            /\ UNCHANGED <<payments, gatewayReqs>>
       ELSE IF existingPayment(report_id) # NULL
       THEN /\ res' = Reply("initiate", 400)
            /\ UNCHANGED <<payments, gatewayReqs>>
       ELSE IF fault = "insert" \/ flwRefTaken(txRef)
       THEN /\ res' = Reply("initiate", 500)
            /\ UNCHANGED <<payments, gatewayReqs>>
       ELSE /\ Len(payments) < MaxPayments
            \* value.amount || report.payment_amount
            /\ payments' = Append(payments,
                   paymentRecord(report_id, u, txRef,
                                 IF amount # NULL THEN amount
                                 ELSE garbage_reports[report_id].payment_amount))
            /\ gatewayReqs' = [gatewayReqs EXCEPT ![Len(payments) + 1] = @ + 1]
            /\ res' = Reply("initiate", IF fault = "gateway" THEN 500 ELSE 200)
    /\ UNCHANGED <<garbage_reports, collection_logs, assignReq, hook, sms, users, nearest, registerReq>>

\* ----- GET /api/payments/status/:txRef ----------------------------------------
\* a read: the payment with that reference, or 404
getPaymentStatus(txRef) ==
    /\ res' = Reply("paymentStatus", IF PaymentExists(txRef) THEN 200 ELSE 404)
    /\ UNCHANGED <<garbage_reports, payments, collection_logs, assignReq, hook, sms,
                   gatewayReqs, users, nearest, registerReq>>

\* ----- webhooks: POST /webhooks/flutterwave, GET /webhooks/pesapal -----------
\* variant: a status outside the three known ones counts as paid
MapFlutterwaveDefaultSuccessful(status) ==
    CASE status = "failed" -> "failed"
      [] status = "cancelled" -> "cancelled"
      [] OTHER -> "successful"

MapFlutterwaveStatus(status) ==
    CASE status = "successful" -> "successful"
      [] status = "failed" -> "failed"
      [] status = "cancelled" -> "cancelled"
      [] OTHER -> "processing"

MapPesapalStatus(description) ==
    CASE description = "Completed" -> "successful"
      [] description = "Failed" -> "failed"
      [] description \in {"Invalid", "Reversed"} -> "cancelled"
      [] OTHER -> "processing"

\* the gateway reports the fee of a report, in the currency it was charged in
FeePaid == Payload(DEFAULT_COLLECTION_FEE, "UGX")

GatewayStatuses(g) == IF g = "flutterwave" THEN FlutterwaveStatuses ELSE PesapalStatuses
MapStatus(g, raw) == IF g = "flutterwave" THEN MapFlutterwaveStatus(raw) ELSE MapPesapalStatus(raw)

HookRefs == 1..(MaxPayments + 1)

\* the 'verif-hash' header (NULL: absent) and FLUTTERWAVE_SECRET_HASH (NULL: not configured)
Signatures == {NULL, 1}
SecretHashes == {NULL, 1}

\* variant: the comparison alone, without the test that a secret is configured
compareSignature(signature, secretHash) == signature = secretHash

verifyFlutterwaveSignature(signature, secretHash) ==
    IF secretHash = NULL THEN FALSE ELSE signature = secretHash

\* variants: the error is handed to the error handler (500) instead
paymentErrorPropagated == Reply("webhook", 500)
catchPropagated == Reply("webhook", 500)

\* the answer when the payment update returns an error (no row, or the store failed)
paymentErrorReply == Reply("webhook", 200)

\* the answer of the handlers' catch block
catchReply == Reply("webhook", 200)

\* variant: completed_at is written for a successful payment and otherwise
\* left as it is
updatePaymentKeepingCompletion(row, paymentStatus, payload, t) ==
    [row EXCEPT !.payment_status = paymentStatus,
                !.webhook_response = payload,
                !.completed_at = IF paymentStatus = "successful" THEN t ELSE @]

\* the row written by the webhook's payment update (step 3)
updatePayment(row, paymentStatus, payload, t) ==
    [row EXCEPT !.payment_status = paymentStatus,
                !.webhook_response = payload,
                !.completed_at = IF paymentStatus = "successful" THEN t ELSE NULL]

\* steps 1-3: verify / fetch the gateway status, map it, update the payment row
\* payload: the amount and currency the gateway reports (flutterwave: the
\* webhook body; pesapal: the answer of getTransactionStatus)
hookReceive(h, g, fault, ref, raw, payload, t) ==
    /\ hook[h].pc = "idle"
    /\ LET paymentStatus == MapStatus(g, raw) IN
       IF fault = "request"
       THEN \* flutterwave: invalid signature (401); pesapal: missing IPN parameters (400)
            /\ res' = Reply("webhook", IF g = "flutterwave" THEN 401 ELSE 400)
            /\ UNCHANGED <<payments, hook>>
       ELSE IF fault = "payload"
       THEN \* flutterwave: destructuring the payload throws; pesapal: getTransactionStatus throws
            /\ res' = catchReply
            /\ UNCHANGED <<payments, hook>>
       ELSE IF ~PaymentExists(ref) \/ fault = "db"
       THEN /\ res' = paymentErrorReply
            /\ UNCHANGED <<payments, hook>>
       ELSE /\ paymentStatus \in {"successful", "failed"}
                => SumSms(MaxPayments) + Cardinality(NotifyingHooks) < MaxSms
            /\ payments' = [payments EXCEPT ![ref] = updatePayment(@, paymentStatus, payload, t)]
            /\ IF paymentStatus = "successful"
               THEN /\ hook' = [hook EXCEPT ![h] = [pc |-> "report", ref |-> ref,
                                     paymentStatus |-> paymentStatus]]
                    /\ UNCHANGED res
               ELSE IF paymentStatus = "failed"
               THEN /\ hook' = [hook EXCEPT ![h] = [pc |-> "notify", ref |-> ref,
                                     paymentStatus |-> paymentStatus]]
                    /\ UNCHANGED res
               ELSE /\ res' = Reply("webhook", 200)
                    /\ UNCHANGED hook
    /\ UNCHANGED <<garbage_reports, collection_logs, assignReq, sms, gatewayReqs, users, nearest, registerReq>>

\* variant: the report is updated whatever status the callback mapped to
hookUpdateReportOfAny(h, updateOK) ==
    /\ hook[h].pc \in {"report", "notify"}
    /\ LET report_id == payments[hook[h].ref].report_id IN
       garbage_reports' = IF updateOK
                          THEN [garbage_reports EXCEPT ![report_id].status = "pending"]
                          ELSE garbage_reports
    /\ hook' = [hook EXCEPT ![h].pc = "notify"]
    /\ UNCHANGED <<payments, collection_logs, assignReq, sms, gatewayReqs, res, users, nearest, registerReq>>

\* step 4: a successful payment sets its report to 'pending'
hookUpdateReport(h, updateOK) ==
    /\ hook[h].pc = "report"
    /\ LET report_id == payments[hook[h].ref].report_id IN
       garbage_reports' = IF updateOK
                          THEN [garbage_reports EXCEPT ![report_id].status = "pending"]
                          ELSE garbage_reports
    /\ hook' = [hook EXCEPT ![h].pc = "notify"]
    /\ UNCHANGED <<payments, collection_logs, assignReq, sms, gatewayReqs, res, users, nearest, registerReq>>

\* POST /webhooks/flutterwave: the signature is verified before anything is read
handleFlutterwaveWebhook(h, signature, secretHash, fault, ref, raw, payload, t) ==
    hookReceive(h, "flutterwave",
                IF verifyFlutterwaveSignature(signature, secretHash) THEN fault ELSE "request",
                ref, raw, payload, t)

\* GET /webhooks/pesapal: fault = "request" is an IPN without its two parameters
handlePesapalIPN(h, fault, ref, raw, payload, t) ==
    hookReceive(h, "pesapal", fault, ref, raw, payload, t)

\* variant: a notification that is not issued or not delivered undoes the
\* payment update
hookNotifyOrRollBack(h, fault) ==
    /\ hook[h].pc = "notify"
    /\ LET kind == hook[h].paymentStatus
           ref == hook[h].ref
           thrown == kind = "successful" /\ fault = "message"
       IN  /\ sms' = IF fault # "resident" /\ ~thrown
                     THEN [sms EXCEPT ![ref][kind] = @ + 1]
                     ELSE sms
           /\ res' = IF thrown THEN catchReply ELSE Reply("webhook", 200)
           /\ payments' = IF fault = "none" THEN payments
                          ELSE [payments EXCEPT ![ref].payment_status = "pending"]
    /\ hook' = [hook EXCEPT ![h] = IdleHook]
    /\ UNCHANGED <<garbage_reports, collection_logs, assignReq, gatewayReqs, users, nearest, registerReq>>

\* steps 5-6: look the resident up, send the SMS, answer the gateway.
\* fault = "resident": the lookup returns no row, no SMS is attempted;
\* fault = "send": the SMS provider fails, sendSMSNotification swallows the error
hookNotify(h, fault) ==
    /\ hook[h].pc = "notify"
    /\ LET kind == hook[h].paymentStatus
           ref == hook[h].ref
           \* amount.toLocaleString() throws on a missing amount (successful branch only)
           thrown == kind = "successful" /\ fault = "message"
       IN  /\ sms' = IF fault # "resident" /\ ~thrown
                     THEN [sms EXCEPT ![ref][kind] = @ + 1]
                     ELSE sms
           /\ res' = IF thrown THEN catchReply ELSE Reply("webhook", 200)
    /\ hook' = [hook EXCEPT ![h] = IdleHook]
    /\ UNCHANGED <<garbage_reports, payments, collection_logs, assignReq, gatewayReqs, users, nearest, registerReq>>

\* ----- PATCH /api/garbage-reports/:id/assign ---------------------------------
\* the read: fetch the report with its payments, check status and payments[0].
\* The embedded payments(*) carry no ORDER BY, so which row comes first is
\* whatever the store returns: any payment of the report.
assignFetch(c, id) ==
    /\ assignReq[c] = IdleAssign
    /\ IF ~ReportExists(id)
       THEN /\ res' = Reply("assign", 404)
            /\ UNCHANGED assignReq
       ELSE IF garbage_reports[id].status # "pending"
       THEN /\ res' = Reply("assign", 400)
            /\ UNCHANGED assignReq
       ELSE IF PaymentsOf(id) = {}
       THEN /\ res' = Reply("assign", 400)
            /\ UNCHANGED assignReq
       ELSE \E payment \in PaymentsOf(id) :
              IF payments[payment].payment_status # "successful"
              THEN /\ res' = Reply("assign", 400)
                   /\ UNCHANGED assignReq
              ELSE /\ assignReq' = [assignReq EXCEPT ![c] = [report |-> id]]
                   /\ UNCHANGED res
    /\ UNCHANGED <<garbage_reports, payments, collection_logs, hook, sms, gatewayReqs, users, nearest, registerReq>>

\* the write: update ... where id = :id (no condition on status or collector)
assignUpdate(c, t, updateOK) ==
    /\ assignReq[c] # IdleAssign
    /\ LET id == assignReq[c].report IN
       IF updateOK
       THEN /\ garbage_reports' = [garbage_reports EXCEPT
                                     ![id].assigned_collector_id = c,
                                     ![id].status = "assigned",
                                     ![id].assigned_at = t]
            /\ res' = Reply("assign", 200)
       ELSE /\ res' = Reply("assign", 500)
            /\ UNCHANGED garbage_reports
    /\ assignReq' = [assignReq EXCEPT ![c] = IdleAssign]
    /\ UNCHANGED <<payments, collection_logs, hook, sms, gatewayReqs, users, nearest, registerReq>>

\* ----- PATCH /api/garbage-reports/:id/status ---------------------------------
validStatuses == {"pending", "assigned", "in_progress", "completed", "cancelled"}
RequestedStatuses == validStatuses \cup {"bogus"}

\* variant: a garbage_reports table that also has a started_at column
garbageReportColumnsWithStartedAt ==
    {"id", "resident_id", "location", "address_description", "garbage_type",
     "estimated_volume", "photo_url", "description", "status",
     "assigned_collector_id", "payment_required", "payment_amount",
     "reported_at", "assigned_at", "started_at", "completed_at", "created_at",
     "updated_at"}

\* columns of table garbage_reports (schema.sql): there is no started_at
garbageReportColumns ==
    {"id", "resident_id", "location", "address_description", "garbage_type",
     "estimated_volume", "photo_url", "description", "status",
     "assigned_collector_id", "payment_required", "payment_amount",
     "reported_at", "assigned_at", "completed_at", "created_at", "updated_at"}

\* the columns the status route writes
updateData(status) ==
    IF status = "in_progress" THEN {"status", "started_at"}
    ELSE IF status = "completed" THEN {"status", "completed_at"}
    ELSE {"status"}

\* the error handler's answer to the store's error: 500 with the error's
\* message, which names the column
columnErrorReply(op, columns) == [op |-> op, code |-> 500, columns |-> columns]

\* any authenticated user, any report, any status of validStatuses.  The
\* update to 'in_progress' carries started_at, so the store refuses it.
updateStatus(u, id, status, fault, t) ==
    /\ IF status \notin validStatuses
       THEN /\ res' = Reply("status", 400)
            /\ UNCHANGED garbage_reports
       ELSE IF ~(updateData(status) \subseteq garbageReportColumns)
       THEN \* the store refuses the update before it looks for the row
            /\ res' = columnErrorReply("status", updateData(status) \ garbageReportColumns)
            /\ UNCHANGED garbage_reports
       ELSE IF ~ReportExists(id) \/ fault = "db"
       THEN /\ res' = Reply("status", 500)
            /\ UNCHANGED garbage_reports
       ELSE /\ garbage_reports' = [garbage_reports EXCEPT
                   ![id].status = status,
                   ![id].completed_at = IF status = "completed" THEN t ELSE @]
            /\ res' = Reply("status", 200)
    /\ UNCHANGED <<payments, collection_logs, assignReq, hook, sms, gatewayReqs, users, nearest, registerReq>>

\* ----- POST /api/collectors/verify-collection --------------------------------
\* variant: the fetch without the filter on assigned_collector_id
anyReport(c, report_id) == ReportExists(report_id)

\* select ... .eq('id', report_id).eq('assigned_collector_id', req.user.id).single()
assignedReport(c, report_id) ==
    ReportExists(report_id) /\ garbage_reports[report_id].assigned_collector_id = c

\* column distance_from_report while nothing was written to it (SQL NULL);
\* a written distance d is <<d>>
NoDistance == << >>

\* the row inserted into collection_logs; columns the insert does not name
\* keep their default
collectionLog(report_id, c, latitude, longitude, qr_code_data, t) ==
    [report_id |-> report_id, collector_id |-> c,
     qr_code_scanned |-> qr_code_data # NULL,
     qr_scan_timestamp |-> IF qr_code_data # NULL THEN t ELSE NULL,
     collection_location |-> Point(longitude, latitude),
     distance_from_report |-> NoDistance,
     started_at |-> t, completed_at |-> t]

\* fault = "invalid": the body carries no report_id
verifyCollection(c, report_id, latitude, longitude, qr_code_data, fault, t) ==
    /\ IF fault = "invalid" \/ latitude = NULL \/ longitude = NULL
       THEN /\ res' = Reply("verify", 400)
            /\ UNCHANGED <<garbage_reports, collection_logs>>
       ELSE IF ~assignedReport(c, report_id)
       THEN /\ res' = Reply("verify", 404)
            /\ UNCHANGED <<garbage_reports, collection_logs>>
       ELSE IF fault = "log"
       THEN /\ res' = Reply("verify", 500)
            /\ UNCHANGED <<garbage_reports, collection_logs>>
       ELSE /\ Len(collection_logs) < MaxLogs
            /\ collection_logs' = Append(collection_logs,
                   collectionLog(report_id, c, latitude, longitude, qr_code_data, t))
            \* the result of the report update is not inspected
            /\ garbage_reports' = IF fault # "update"
                                  THEN [garbage_reports EXCEPT
                                          ![report_id].status = "completed",
                                          ![report_id].completed_at = t]
                                  ELSE garbage_reports
            /\ res' = Reply("verify", 200)
    /\ UNCHANGED <<payments, assignReq, hook, sms, gatewayReqs, users, nearest, registerReq>>

\* ----- PATCH /api/collectors/location ---------------------------------------
updateLocation(c, latitude, longitude, fault, t) ==
    /\ IF latitude = NULL \/ longitude = NULL
       THEN /\ res' = Reply("location", 400)
            /\ UNCHANGED users
       ELSE IF fault = "db"
       THEN /\ res' = Reply("location", 500)
            /\ UNCHANGED users
       ELSE /\ users' = [users EXCEPT ![c].current_location = Point(longitude, latitude),
                                      ![c].updated_at = t]
            /\ res' = Reply("location", 200)
    /\ UNCHANGED <<garbage_reports, payments, collection_logs, assignReq, hook, sms,
                   gatewayReqs, nearest, registerReq>>

\* ----- middleware: errorHandler -----------------------------------------------
\* process.env.NODE_ENV ("": not set)
NodeEnvs == {"", "development", "production", "test"}

\* an absent property of the error object
Undefined == << >>

\* the errors routes hand to next(): statusCode (NULL: none), message ("": none
\* or empty), the Joi flag and first detail, the Supabase code, the name, the
\* stack (thrown Supabase errors are plain objects without one)
Errors ==
    [statusCode : {NULL, 404}, message : {"", "boom"}, isJoi : BOOLEAN,
     detail : {"\"latitude\" is required"}, code : {"23505", "PGRST"},
     name : {"Error", "JsonWebTokenError", "TokenExpiredError"},
     stack : {Undefined, <<"Error: boom", "at router.patch">>}]

\* the later tests overwrite the earlier ones
errorStatusCode(err) ==
    IF err.name \in {"JsonWebTokenError", "TokenExpiredError"} THEN 401
    ELSE IF err.code = "PGRST" \/ err.isJoi THEN 400
    ELSE IF err.statusCode # NULL THEN err.statusCode
    ELSE 500

errorMessage(err) ==
    IF err.name = "TokenExpiredError" THEN <<"Token expired">>
    ELSE IF err.name = "JsonWebTokenError" THEN <<"Invalid token">>
    ELSE IF err.code = "PGRST" THEN <<"Database error: ", err.message>>
    ELSE IF err.isJoi THEN <<err.detail>>
    ELSE IF err.message # "" THEN <<err.message>>
    ELSE <<"Internal Server Error">>

NoFields == [field \in {} |-> Undefined]

\* variant: the stack is spread into the body whatever NODE_ENV is
stackAlways(err, NODE_ENV) ==
    IF err.stack # Undefined THEN [stack |-> err.stack] ELSE NoFields

\* ...(process.env.NODE_ENV === 'development' && { stack: err.stack }); JSON
\* drops a property whose value is undefined
stackInDevelopment(err, NODE_ENV) ==
    IF NODE_ENV = "development" /\ err.stack # Undefined
    THEN [stack |-> err.stack]
    ELSE NoFields

errorBody(err, NODE_ENV) ==
    [success |-> FALSE, message |-> errorMessage(err)] @@ stackInDevelopment(err, NODE_ENV)

errorHandler(err, NODE_ENV) ==
    /\ res' = [op |-> "error", code |-> errorStatusCode(err), body |-> errorBody(err, NODE_ENV)]
    /\ UNCHANGED <<garbage_reports, payments, collection_logs, assignReq, hook, sms,
                   gatewayReqs, users, nearest, registerReq>>

\* ----- middleware: authenticateToken, requireUserType -------------------------
\* the status each middleware answers with, NULL when it calls next()
authenticateToken(token) ==
    IF token = NULL THEN 401
    ELSE IF token = BadToken THEN 401
    ELSE IF token \notin DOMAIN users THEN 401
    ELSE IF ~users[token].is_active THEN 403
    ELSE NULL

\* variant: a guard that lets every user type pass
requireNoUserType(user, allowedTypes) == NULL

requireUserType(user, allowedTypes) ==
    IF user.user_type \notin allowedTypes THEN 403 ELSE NULL

\* router.<method>(path, authenticateToken, requireUserType(...), handler):
\* the handler runs only when both middleware called next(); a route without
\* requireUserType allows every user type
route(op, token, allowedTypes, handler) ==
    LET authenticated == authenticateToken(token) IN
    IF authenticated # NULL
    THEN /\ res' = Reply(op, authenticated)
         /\ UNCHANGED <<garbage_reports, payments, collection_logs, assignReq, hook,
                        sms, gatewayReqs, users, nearest, registerReq>>
    ELSE IF requireUserType(users[token], allowedTypes) # NULL
    THEN /\ res' = Reply(op, requireUserType(users[token], allowedTypes))
         /\ UNCHANGED <<garbage_reports, payments, collection_logs, assignReq, hook,
                        sms, gatewayReqs, users, nearest, registerReq>>
    ELSE handler

Tokens == {NULL, BadToken, DeletedUser} \cup DOMAIN users

postReport(token, env, longitude, latitude, fault, t) ==
    route("createReport", token, {"resident"},
          createReport(token, env, longitude, latitude, fault, t))

postInitiate(token, report_id, amount, txRef, fault, t) ==
    route("initiate", token, {"resident"},
          initiatePayment(token, report_id, amount, txRef, fault, t))

patchAssign(token, id) ==
    route("assign", token, {"collector"}, assignFetch(token, id))

patchStatus(token, id, status, fault, t) ==
    route("status", token, UserTypes, updateStatus(token, id, status, fault, t))

patchLocation(token, latitude, longitude, fault, t) ==
    route("location", token, {"collector"}, updateLocation(token, latitude, longitude, fault, t))

postVerify(token, report_id, latitude, longitude, qr_code_data, fault, t) ==
    route("verify", token, {"collector"},
          verifyCollection(token, report_id, latitude, longitude, qr_code_data, fault, t))

\* ----- find_nearest_collector(report_uuid) (schema.sql) -------------------------
\* ST_Distance of two points, on the grid of the model
Distance(a, b) ==
    (IF a[1] > b[1] THEN a[1] - b[1] ELSE b[1] - a[1])
        + (IF a[2] > b[2] THEN a[2] - b[2] ELSE b[2] - a[2])

\* variant: the WHERE clause without u.is_active = true
locatedCollectors(report_uuid) ==
    IF ~ReportExists(report_uuid) THEN {}
    ELSE {u \in DOMAIN users : /\ users[u].user_type = "collector"
                               /\ users[u].current_location # NoLocation}

\* users u CROSS JOIN garbage_reports gr WHERE gr.id = report_uuid AND ...
eligibleCollectors(report_uuid) ==
    IF ~ReportExists(report_uuid) THEN {}
    ELSE {u \in DOMAIN users : /\ users[u].user_type = "collector"
                               /\ users[u].is_active
                               /\ users[u].current_location # NoLocation}

distance_meters(report_uuid, u) ==
    Distance(users[u].current_location, garbage_reports[report_uuid].location)

\* variant: ORDER BY ... DESC
descending(d1, d2) == d1 >= d2

\* ORDER BY ST_Distance(...) ASC
ascending(d1, d2) == d1 =< d2

\* the orders the sort can produce: ORDER BY names the distance alone, so rows
\* at the same distance come in any order
RECURSIVE orderBy(_, _)
orderBy(report_uuid, rows) ==
    IF rows = {} THEN {<< >>}
    ELSE LET first == {u \in rows : \A v \in rows :
                          ascending(distance_meters(report_uuid, u),
                                    distance_meters(report_uuid, v))}
         IN  UNION {{<<u>> \o rest : rest \in orderBy(report_uuid, rows \ {u})} : u \in first}

LIMIT == 5

limit(rows) == SubSeq(rows, 1, IF Len(rows) < LIMIT THEN Len(rows) ELSE LIMIT)

\* RETURNS TABLE (collector_id, collector_name, collector_phone, distance_meters)
resultRows(report_uuid, rows) ==
    [i \in 1..Len(rows) |-> [collector_id |-> rows[i],
                             distance_meters |-> distance_meters(report_uuid, rows[i])]]

\* the call (its argument and the time it is made, which the function does
\* not read) and the rows it returns
find_nearest_collector(report_uuid, now) ==
    /\ \E rows \in orderBy(report_uuid, eligibleCollectors(report_uuid)) :
          nearest' = [report_uuid |-> report_uuid, asked_at |-> now,
                      rows |-> resultRows(report_uuid, limit(rows))]
    /\ UNCHANGED <<garbage_reports, payments, collection_logs, assignReq, hook, sms,
                   gatewayReqs, res, users, registerReq>>

\* ----- POST /api/auth/register ------------------------------------------------
\* the users whose phone_number is the given one
usersWithPhone(phone_number) ==
    {u \in DOMAIN users : users[u].phone_number = phone_number}

\* select('id').eq('phone_number', phone_number).single()
existingUser(phone_number) == single(usersWithPhone(phone_number))

\* variant: phone_number without its UNIQUE constraint
phoneFree(phone_number) == FALSE

\* schema.sql: phone_number VARCHAR(15) UNIQUE NOT NULL
phoneTaken(phone_number) == usersWithPhone(phone_number) # {}

\* schema.sql: CONSTRAINT valid_user_type
valid_user_type(row) ==
    (row.user_type = "resident" /\ row.home_location # NoLocation) \/ row.user_type = "collector"

\* userData: home_location is set for a resident who sent both coordinates
userData(phone_number, user_type, latitude, longitude, t) ==
    userRow(user_type, TRUE, NoLocation, t)
        @@ [phone_number |-> phone_number,
            home_location |-> IF latitude # NULL /\ longitude # NULL /\ user_type = "resident"
                              THEN Point(longitude, latitude) ELSE NoLocation]

\* gen_random_uuid(): an id no row has
newUserId == 200 + Cardinality(DOMAIN users) + 1

\* the answer of the error handler to a thrown insert error
insertErrorReply(message) == [op |-> "register", code |-> 500, message |-> message]

\* the validation and the read: is the phone number registered?
registerCheck(r, phone_number, user_type, latitude, longitude, fault) ==
    /\ registerReq[r] = IdleRegister
    /\ IF fault = "invalid"
       THEN /\ res' = Reply("register", 400)
            /\ UNCHANGED registerReq
       ELSE IF existingUser(phone_number) # NULL
       THEN /\ res' = Reply("register", 400)
            /\ UNCHANGED registerReq
       ELSE /\ registerReq' = [registerReq EXCEPT ![r] =
                                 [pc |-> "insert", phone_number |-> phone_number,
                                  user_type |-> user_type, latitude |-> latitude,
                                  longitude |-> longitude]]
            /\ UNCHANGED res
    /\ UNCHANGED <<garbage_reports, payments, collection_logs, assignReq, hook, sms,
                   gatewayReqs, users, nearest>>

\* the write: the insert, refused by the store when a constraint fails
registerInsert(r, fault, t) ==
    /\ registerReq[r] # IdleRegister
    /\ LET req == registerReq[r]
           row == userData(req.phone_number, req.user_type, req.latitude, req.longitude, t)
       IN  IF phoneTaken(req.phone_number)
           THEN /\ res' = insertErrorReply("duplicate key value violates unique constraint")
                /\ UNCHANGED users
           ELSE IF ~valid_user_type(row)
           THEN /\ res' = insertErrorReply("violates check constraint")
                /\ UNCHANGED users
           ELSE IF fault = "db"
           THEN /\ res' = insertErrorReply("connection failure")
                /\ UNCHANGED users
           ELSE /\ Cardinality(DOMAIN users) < MaxUsers
                /\ users' = users @@ (newUserId :> row)
                /\ res' = Reply("register", 201)
    /\ registerReq' = [registerReq EXCEPT ![r] = IdleRegister]
    /\ UNCHANGED <<garbage_reports, payments, collection_logs, assignReq, hook, sms,
                   gatewayReqs, nearest>>

\* ----- GET /api/garbage-reports/nearby -----------------------------------------
\* query parameters are strings of digits; << >>: the parameter is absent
DEFAULT_RADIUS == 5000
FALLBACK_LIMIT == 20

\* parseInt of a string of decimal digits; an absent radius is the default number
parseInt(digits) == parseFloat(digits)
radiusMeters(radius) == IF radius = << >> THEN DEFAULT_RADIUS ELSE parseInt(radius)

\* the database function the route calls has no definition in schema.sql: the
\* reports the ranking sees are the paid, unclaimed ones within the radius
get_nearby_reports(collector_lat, collector_lng, radius_meters) ==
    {id \in 1..Len(garbage_reports) :
        /\ garbage_reports[id].status = "pending"
        /\ garbage_reports[id].assigned_collector_id = NULL
        /\ SuccessfulPaymentsOf(id) # {}
        /\ Distance(Point(collector_lng, collector_lat), garbage_reports[id].location)
              =< radius_meters}

\* the fallback's filter: .eq('status', 'pending')
pendingReports == {id \in 1..Len(garbage_reports) : garbage_reports[id].status = "pending"}

\* .limit(20) without an order: any rows of the filter, up to the limit
limited(rows) ==
    {some \in SUBSET rows :
        Cardinality(some) = IF Cardinality(rows) < FALLBACK_LIMIT
                            THEN Cardinality(rows) ELSE FALLBACK_LIMIT}

Reports(code, reports) == [op |-> "nearby", code |-> code, reports |-> reports]

\* fault = "rpc": the call of get_nearby_reports returns an error;
\* fault = "fetch": so does the fallback's select, which is thrown
getNearby(c, latitude, longitude, radius, fault) ==
    /\ IF latitude = << >> \/ longitude = << >>
       THEN res' = Reply("nearby", 400)
       ELSE IF fault = "none"
       THEN res' = Reports(200, get_nearby_reports(parseFloat(latitude), parseFloat(longitude),
                                                   radiusMeters(radius)))
       ELSE IF fault = "fetch"
       THEN res' = Reply("nearby", 500)
       ELSE \E allReports \in limited(pendingReports) : res' = Reports(200, allReports)
    /\ UNCHANGED <<garbage_reports, payments, collection_logs, assignReq, hook, sms,
                   gatewayReqs, users, nearest, registerReq>>

\* ----- the system ----------------------------------------------------------
\* the narrow actions below are requests that passed authenticateToken and
\* requireUserType: every user of registeredUsers is active.  CreateReport is
\* a deployment that leaves DEFAULT_COLLECTION_FEE unset, with reports at one place.
CreateReport == \E u \in Residents, fault \in {"none", "invalid", "insert"}, t \in Times :
                    createReport(u, EnvUnset, 1, 1, fault, t)

InitiatePayment == \E u \in Residents, id \in ReportIds, t \in Times,
                      fault \in {"none", "invalid", "insert", "gateway"} :
                    initiatePayment(u, id, NULL, Len(payments) + 1, fault, t)

\* the amounts a body may name: none, one below the schema's minimum, the
\* minimum, the fee of a report
Amounts == {NULL, MinAmount - 1, MinAmount, DEFAULT_COLLECTION_FEE}

InitiatePaymentOf == \E u \in Residents, id \in ReportIds, amount \in Amounts, t \in Times :
                        initiatePayment(u, id, amount, Len(payments) + 1, "none", t)

\* what the gateways may report: the fee, the schema's minimum, another currency
Payloads == {FeePaid, Payload(MinAmount, "UGX"), Payload(DEFAULT_COLLECTION_FEE, "USD")}

HookReceiveOf == \E h \in Hooks, ref \in HookRefs, payload \in Payloads, t \in Times :
                    \/ \E raw \in FlutterwaveStatuses :
                          handleFlutterwaveWebhook(h, 1, 1, "none", ref, raw, payload, t)
                    \/ \E raw \in PesapalStatuses :
                          handlePesapalIPN(h, "none", ref, raw, payload, t)

\* initiations by any resident of table users, for any report, with any
\* generated reference
InitiatePaymentBy ==
    \E u \in {r \in DOMAIN users : users[r].user_type = "resident"}, id \in ReportIds,
       txRef \in 1..(Len(payments) + 1), t \in Times,
       fault \in {"none", "invalid", "insert", "gateway"} :
          initiatePayment(u, id, NULL, txRef, fault, t)

GetPaymentStatus == \E txRef \in HookRefs : getPaymentStatus(txRef)

\* a request refused before its payload is read, or whose payment update the
\* store fails, is answered whatever reference and status it carries
HookReceive == \E h \in Hooks, t \in Times :
                  \/ \E signature \in Signatures, secretHash \in SecretHashes :
                        \/ \E fault \in {"payload", "db"} :
                              handleFlutterwaveWebhook(h, signature, secretHash, fault, NULL, "unknown", FeePaid, t)
                        \/ \E ref \in HookRefs, raw \in FlutterwaveStatuses :
                              handleFlutterwaveWebhook(h, signature, secretHash, "none", ref, raw, FeePaid, t)
                  \/ \E fault \in {"request", "payload", "db"} :
                        handlePesapalIPN(h, fault, NULL, "unknown", FeePaid, t)
                  \/ \E ref \in HookRefs, raw \in PesapalStatuses :
                        handlePesapalIPN(h, "none", ref, raw, FeePaid, t)

HookUpdateReport == \E h \in Hooks, updateOK \in BOOLEAN : hookUpdateReport(h, updateOK)

HookNotify == \E h \in Hooks, fault \in {"none", "resident", "message", "send"} :
                    hookNotify(h, fault)

AssignFetch == \E c \in Collectors, id \in ReportIds : assignFetch(c, id)

AssignUpdate == \E c \in Collectors, t \in Times, updateOK \in BOOLEAN : assignUpdate(c, t, updateOK)

UpdateStatus == \E u \in Users, id \in ReportIds, status \in RequestedStatuses,
                   fault \in {"none", "db"}, t \in Times :
                    updateStatus(u, id, status, fault, t)

VerifyCollection == \E c \in Collectors, id \in ReportIds, t \in Times,
                       fault \in {"none", "invalid", "log", "update"} :
                    verifyCollection(c, id, 1, 1, 1, fault, t)

\* the requests as they arrive, with any token
SubmitReport == \E token \in Tokens, env \in Environments, longitude \in Longitudes,
                   latitude \in Latitudes, fault \in {"none", "invalid", "insert"},
                   t \in Times :
                    postReport(token, env, longitude, latitude, fault, t)

PostInitiate == \E token \in Tokens, id \in ReportIds, t \in Times,
                   fault \in {"none", "invalid", "insert", "gateway"} :
                    postInitiate(token, id, NULL, Len(payments) + 1, fault, t)

PatchAssign == \E token \in Tokens, id \in ReportIds : patchAssign(token, id)

PatchStatus == \E token \in Tokens, id \in ReportIds, status \in RequestedStatuses,
                  fault \in {"none", "db"}, t \in Times :
                    patchStatus(token, id, status, fault, t)

PatchLocation == \E token \in Tokens, latitude \in Coordinates(Latitudes),
                    longitude \in Coordinates(Longitudes), fault \in {"none", "db"},
                    t \in Times :
                    patchLocation(token, latitude, longitude, fault, t)

\* the scanned code (NULL: none presented)
QrCodes == {NULL, 1}

\* verifications from any place, with or without a scanned code
VerifyCollectionAt ==
    \E c \in Collectors, id \in ReportIds, t \in Times,
       latitude \in Coordinates(Latitudes), longitude \in Coordinates(Longitudes),
       qr_code_data \in QrCodes, fault \in {"none", "invalid", "log", "update"} :
          verifyCollection(c, id, latitude, longitude, qr_code_data, fault, t)

ErrorHandler == \E err \in Errors, NODE_ENV \in NodeEnvs : errorHandler(err, NODE_ENV)

\* latitude, longitude and radius of the query string
QueryNumbers == {<< >>, <<1>>, <<2>>}

GetNearby == \E c \in Collectors, latitude \in QueryNumbers, longitude \in {<< >>, <<1>>},
                radius \in QueryNumbers, fault \in {"none", "rpc", "fetch"} :
                    getNearby(c, latitude, longitude, radius, fault)

RegisterCheck == \E r \in Registrations, phone_number \in PhoneNumbers, user_type \in UserTypes,
                    latitude \in Coordinates({1}), fault \in {"none", "invalid"} :
                    registerCheck(r, phone_number, user_type, latitude, 1, fault)

RegisterInsert == \E r \in Registrations, fault \in {"none", "db"}, t \in Times :
                    registerInsert(r, fault, t)

PostVerify == \E token \in Tokens, id \in ReportIds, t \in Times,
                 fault \in {"none", "invalid", "log", "update"} :
                    postVerify(token, id, 1, 1, 1, fault, t)

\* the times at which the ranking is asked for: up to long after the last
\* location update
CallTimes == 1..(2 * MaxTime + 1)

FindNearest == \E report_uuid \in ReportIds, now \in CallTimes :
                    find_nearest_collector(report_uuid, now)

Next ==
    \/ SubmitReport
    \/ PostInitiate
    \/ HookReceive
    \/ HookUpdateReport
    \/ HookNotify
    \/ PatchAssign
    \/ AssignUpdate
    \/ PatchStatus
    \/ PostVerify
    \/ PatchLocation
    \/ FindNearest
    \/ GetPaymentStatus

Spec == Init /\ [][Next]_vars

\* ----- the payment subsystem alone: residents and gateways, no collector ----
NextPay ==
    \/ CreateReport
    \/ InitiatePayment
    \/ HookReceive
    \/ HookUpdateReport
    \/ HookNotify

SpecPay == Init /\ [][NextPay]_vars

\* ----- the collectors' side, once the payments are settled -------------------
\* the database after the residents and the gateways have acted (a state of
\* SpecPay): n fresh reports, payments in any status, no callback in flight
freshReport(u) == [resident_id |-> u, location |-> Point(1, 1),
                   status |-> "pending", payment_amount |-> DEFAULT_COLLECTION_FEE,
                   assigned_collector_id |-> NULL, assigned_at |-> NULL,
                   completed_at |-> NULL]

settledPayment(report_id, u, ref, status, t) ==
    [report_id |-> report_id, resident_id |-> u, flw_ref |-> ref,
     amount |-> DEFAULT_COLLECTION_FEE, currency |-> "UGX",
     webhook_response |-> IF status = "pending" THEN NoResponse ELSE FeePaid,
     payment_status |-> status,
     completed_at |-> IF status = "successful" THEN t ELSE NULL]

InitSettled(maxPayments) ==
    /\ \E n \in 1..MaxReports, u \in Residents :
         /\ garbage_reports = [i \in 1..n |-> freshReport(u)]
         /\ \E m \in 0..maxPayments :
              \E owner \in [1..m -> 1..n], status \in [1..m -> PaymentStatuses], t \in Times :
                 /\ payments = [i \in 1..m |-> settledPayment(owner[i], u, i, status[i], t)]
                 /\ gatewayReqs = [p \in PaymentRefs |-> IF p <= m THEN 1 ELSE 0]
    /\ collection_logs = << >>
    /\ assignReq = [c \in Users |-> IdleAssign]
    /\ hook = [h \in Hooks |-> IdleHook]
    /\ sms = [p \in PaymentRefs |-> [successful |-> 0, failed |-> 0]]
    \* the last request was an initiation refused by its validation
    /\ res = Reply("initiate", 400)
    /\ users = registeredUsers
    /\ nearest = NoCall
    /\ registerReq = NoRegistrations

\* concurrent claims only
InitClaim == InitSettled(MaxPayments)

NextClaim ==
    \/ AssignFetch
    \/ AssignUpdate

SpecClaim == InitClaim /\ [][NextClaim]_vars

\* the whole lifecycle of a report after payment
InitLife == InitSettled(1)

NextLife ==
    \/ AssignFetch
    \/ AssignUpdate
    \/ UpdateStatus
    \/ VerifyCollection

SpecLife == InitLife /\ [][NextLife]_vars

\* verifications of reports that collectors have claimed
assignedReportRow(u, location, c, t) ==
    [freshReport(u) EXCEPT !.location = location,
                           !.status = IF c = NULL THEN "pending" ELSE "assigned",
                           !.assigned_collector_id = c,
                           !.assigned_at = IF c = NULL THEN NULL ELSE t]

InitVerify ==
    /\ \E n \in 1..MaxReports, u \in Residents, t \in Times :
         \E location \in [1..n -> Locations], c \in [1..n -> {NULL} \cup Collectors] :
            /\ garbage_reports = [i \in 1..n |-> assignedReportRow(u, location[i], c[i], t)]
            /\ payments = [i \in 1..n |-> settledPayment(i, u, i, "successful", t)]
            /\ gatewayReqs = [p \in PaymentRefs |-> IF p <= n THEN 1 ELSE 0]
    /\ collection_logs = << >>
    /\ assignReq = [c \in Users |-> IdleAssign]
    /\ hook = [h \in Hooks |-> IdleHook]
    /\ sms = [p \in PaymentRefs |-> [successful |-> 0, failed |-> 0]]
    /\ res = Reply("assign", 200)
    /\ users = registeredUsers
    /\ nearest = NoCall
    /\ registerReq = NoRegistrations

NextVerify == VerifyCollectionAt

SpecVerify == InitVerify /\ [][NextVerify]_vars

\* the webhooks alone, on the database the residents left
NextHook ==
    \/ HookReceive
    \/ HookUpdateReport
    \/ HookNotify

\* callbacks arriving after the reports were paid and some of them claimed
InitLate ==
    /\ \E u \in Residents, t \in Times, c \in [1..2 -> {NULL, 1}] :
         /\ garbage_reports = [i \in 1..2 |-> assignedReportRow(u, Point(1, 1), c[i], t)]
         /\ payments = [i \in 1..2 |-> settledPayment(i, u, i, "successful", t)]
    /\ gatewayReqs = [p \in PaymentRefs |-> IF p <= 2 THEN 1 ELSE 0]
    /\ collection_logs = << >>
    /\ assignReq = [c \in Users |-> IdleAssign]
    /\ hook = [h \in Hooks |-> IdleHook]
    /\ sms = [p \in PaymentRefs |-> [successful |-> 0, failed |-> 0]]
    /\ res = Reply("assign", 200)
    /\ users = registeredUsers
    /\ nearest = NoCall
    /\ registerReq = NoRegistrations

SpecLate == InitLate /\ [][NextHook]_vars

InitHook == InitSettled(2)

SpecHook == InitHook /\ [][NextHook]_vars

\* the callbacks of payment attempts that were initiated and not yet answered
InitInitiated ==
    /\ \E n \in 1..MaxReports, u \in Residents :
         /\ garbage_reports = [i \in 1..n |-> freshReport(u)]
         /\ \E m \in 1..2 :
              \E owner \in [1..m -> 1..n] :
                 /\ payments = [i \in 1..m |-> paymentRecord(owner[i], u, i, DEFAULT_COLLECTION_FEE)]
                 /\ gatewayReqs = [p \in PaymentRefs |-> IF p <= m THEN 1 ELSE 0]
    /\ collection_logs = << >>
    /\ assignReq = [c \in Users |-> IdleAssign]
    /\ hook = [h \in Hooks |-> IdleHook]
    /\ sms = [p \in PaymentRefs |-> [successful |-> 0, failed |-> 0]]
    /\ res = Reply("initiate", 200)
    /\ users = registeredUsers
    /\ nearest = NoCall
    /\ registerReq = NoRegistrations

SpecNotify == InitInitiated /\ [][NextHook]_vars

\* gateway callbacks arriving while collectors claim reports
NextRegress ==
    \/ HookReceive
    \/ HookUpdateReport
    \/ HookNotify
    \/ AssignFetch
    \/ AssignUpdate

SpecRegress == InitLife /\ [][NextRegress]_vars

\* the guarded routes, on a database with one paid report and with users that
\* an administrator may have deactivated (no route changes is_active)
InitAuth ==
    /\ \E u \in Residents, t \in Times :
         /\ garbage_reports = <<freshReport(u)>>
         /\ payments = <<settledPayment(1, u, 1, "successful", t)>>
    /\ gatewayReqs = [p \in PaymentRefs |-> IF p = 1 THEN 1 ELSE 0]
    /\ collection_logs = << >>
    /\ assignReq = [c \in Users |-> IdleAssign]
    /\ hook = [h \in Hooks |-> IdleHook]
    /\ sms = [p \in PaymentRefs |-> [successful |-> IF p = 1 THEN 1 ELSE 0, failed |-> 0]]
    /\ res = Reply("webhook", 200)
    /\ \E active \in [Users -> BOOLEAN] :
         users = [u \in Users |-> [registeredUsers[u] EXCEPT !.is_active = active[u]]]
    /\ nearest = NoCall
    /\ registerReq = NoRegistrations

\* well-formed requests with any token, the store answering every query; the
\* status requests are those that write no report (unknown status, in_progress)
NextAuth ==
    \/ \E token \in Tokens, t \in Times : postReport(token, EnvUnset, 1, 1, "none", t)
    \/ \E token \in Tokens, id \in ReportIds, t \in Times :
          postInitiate(token, id, NULL, Len(payments) + 1, "none", t)
    \/ \E token \in Tokens, id \in ReportIds : patchAssign(token, id)
    \/ \E c \in Collectors, t \in Times : assignUpdate(c, t, TRUE)
    \/ \E token \in Tokens, id \in ReportIds, t \in Times,
          status \in {"bogus", "in_progress"} :
          patchStatus(token, id, status, "none", t)
    \/ \E token \in Tokens, latitude \in Latitudes, t \in Times :
          patchLocation(token, latitude, 1, "none", t)
    \/ \E token \in Tokens, id \in ReportIds, t \in Times :
          postVerify(token, id, 1, 1, 1, "none", t)

SpecAuth == InitAuth /\ [][NextAuth]_vars

\* the ranking: NumRanked users around one report.  A user is a resident, a
\* deactivated collector, a collector that never sent a location, or an
\* active collector at one of the latitudes.
RankedUsers == 1..NumRanked
OtherUsers == {"resident", "deactivated", "unlocated"}

rankedUser(latitude, other) ==
    IF latitude # NULL THEN userRow("collector", TRUE, Point(1, latitude), 1)
    ELSE IF other = "resident" THEN userRow("resident", TRUE, NoLocation, 1)
    ELSE IF other = "deactivated" THEN userRow("collector", FALSE, Point(1, 1), 1)
    ELSE userRow("collector", TRUE, NoLocation, 1)

InitRank ==
    /\ \E u \in Residents : garbage_reports = <<freshReport(u)>>
    /\ payments = << >>
    /\ gatewayReqs = [p \in PaymentRefs |-> 0]
    /\ collection_logs = << >>
    /\ assignReq = [c \in Users |-> IdleAssign]
    /\ hook = [h \in Hooks |-> IdleHook]
    /\ sms = [p \in PaymentRefs |-> [successful |-> 0, failed |-> 0]]
    /\ res = Reply("createReport", 201)
    /\ \E latitude \in [RankedUsers -> Coordinates(Latitudes)], other \in OtherUsers :
         users = [u \in RankedUsers |-> rankedUser(latitude[u], other)]
    /\ nearest = NoCall
    /\ registerReq = NoRegistrations

\* the ranking is asked for once on each table
NextRank == nearest = NoCall /\ FindNearest

SpecRank == InitRank /\ [][NextRank]_vars

\* the collectors of the registered users move and the ranking is asked for
InitLocate ==
    /\ \E u \in Residents : garbage_reports = <<freshReport(u)>>
    /\ payments = << >>
    /\ gatewayReqs = [p \in PaymentRefs |-> 0]
    /\ collection_logs = << >>
    /\ assignReq = [c \in Users |-> IdleAssign]
    /\ hook = [h \in Hooks |-> IdleHook]
    /\ sms = [p \in PaymentRefs |-> [successful |-> 0, failed |-> 0]]
    /\ res = Reply("createReport", 201)
    /\ users = registeredUsers
    /\ nearest = NoCall
    /\ registerReq = NoRegistrations

NextLocate ==
    \/ PatchLocation
    \/ FindNearest

SpecLocate == InitLocate /\ [][NextLocate]_vars

\* errors thrown while collectors send their location reach the error handler
NextError ==
    \/ PatchLocation
    \/ ErrorHandler

SpecError == InitLocate /\ [][NextError]_vars

\* report submission alone, under every fee configuration, by users that an
\* administrator may have deactivated
InitSubmit ==
    /\ garbage_reports = << >>
    /\ payments = << >>
    /\ gatewayReqs = [p \in PaymentRefs |-> 0]
    /\ collection_logs = << >>
    /\ assignReq = [c \in Users |-> IdleAssign]
    /\ hook = [h \in Hooks |-> IdleHook]
    /\ sms = [p \in PaymentRefs |-> [successful |-> 0, failed |-> 0]]
    /\ res = Reply("none", 0)
    /\ \E active \in [Users -> BOOLEAN] :
         users = [u \in Users |-> [registeredUsers[u] EXCEPT !.is_active = active[u]]]
    /\ nearest = NoCall
    /\ registerReq = NoRegistrations

NextSubmit == SubmitReport

SpecSubmit == InitSubmit /\ [][NextSubmit]_vars

\* payment attempts on one report and their callbacks
InitAttempt ==
    /\ \E u \in Residents : garbage_reports = <<freshReport(u)>>
    /\ payments = << >>
    /\ gatewayReqs = [p \in PaymentRefs |-> 0]
    /\ collection_logs = << >>
    /\ assignReq = [c \in Users |-> IdleAssign]
    /\ hook = [h \in Hooks |-> IdleHook]
    /\ sms = [p \in PaymentRefs |-> [successful |-> 0, failed |-> 0]]
    /\ res = Reply("createReport", 201)
    /\ users = registeredUsers
    /\ nearest = NoCall
    /\ registerReq = NoRegistrations

NextAttempt ==
    \/ InitiatePayment
    \/ GetPaymentStatus
    \/ HookReceive
    \/ HookUpdateReport
    \/ HookNotify

SpecAttempt == InitAttempt /\ [][NextAttempt]_vars

\* payment attempts with amounts chosen by the resident, and the callbacks the
\* gateways send for them
NextAmount ==
    \/ Len(payments) < 2 /\ InitiatePaymentOf
    \/ HookReceiveOf
    \/ HookUpdateReport
    \/ HookNotify

SpecAmount == InitAttempt /\ [][NextAmount]_vars

\* two residents, each with reports of their own, start payment attempts
SecondResident == 100 + NumResidents + 2

InitInitiate ==
    /\ users = registeredUsers @@ (SecondResident :> userRow("resident", TRUE, NoLocation, 1))
    /\ \E n \in 1..MaxReports :
         \E owner \in [1..n -> Residents \cup {SecondResident}] :
            garbage_reports = [i \in 1..n |-> freshReport(owner[i])]
    /\ payments = << >>
    /\ gatewayReqs = [p \in PaymentRefs |-> 0]
    /\ collection_logs = << >>
    /\ assignReq = [c \in Users |-> IdleAssign]
    /\ hook = [h \in Hooks |-> IdleHook]
    /\ sms = [p \in PaymentRefs |-> [successful |-> 0, failed |-> 0]]
    /\ res = Reply("createReport", 201)
    /\ nearest = NoCall
    /\ registerReq = NoRegistrations

NextInitiate == InitiatePaymentBy

SpecInitiate == InitInitiate /\ [][NextInitiate]_vars

\* collectors look for reports and claim them; the reports are paid or not
InitNearby ==
    /\ \E n \in 1..MaxReports, u \in Residents :
         \E location \in [1..n -> Locations], status \in [1..n -> {"none", "failed", "successful"}],
            t \in Times :
            /\ garbage_reports = [i \in 1..n |-> [freshReport(u) EXCEPT !.location = location[i]]]
            /\ LET paid == {i \in 1..n : status[i] # "none"}
                   row(p) == IF p = 1 /\ 1 \in paid THEN 1 ELSE 2
               IN  /\ payments = [p \in 1..Cardinality(paid) |->
                                     settledPayment(row(p), u, p, status[row(p)], t)]
                   /\ gatewayReqs = [p \in PaymentRefs |->
                                       IF p <= Cardinality(paid) THEN 1 ELSE 0]
    /\ collection_logs = << >>
    /\ assignReq = [c \in Users |-> IdleAssign]
    /\ hook = [h \in Hooks |-> IdleHook]
    /\ sms = [p \in PaymentRefs |-> [successful |-> 0, failed |-> 0]]
    /\ res = Reply("createReport", 201)
    /\ users = registeredUsers
    /\ nearest = NoCall
    /\ registerReq = NoRegistrations

NextNearby ==
    \/ GetNearby
    \/ AssignFetch
    \/ AssignUpdate

SpecNearby == InitNearby /\ [][NextNearby]_vars

\* registrations alone, on an empty table users
InitRegister ==
    /\ garbage_reports = << >>
    /\ payments = << >>
    /\ gatewayReqs = [p \in PaymentRefs |-> 0]
    /\ collection_logs = << >>
    /\ assignReq = [c \in Users |-> IdleAssign]
    /\ hook = [h \in Hooks |-> IdleHook]
    /\ sms = [p \in PaymentRefs |-> [successful |-> 0, failed |-> 0]]
    /\ res = Reply("none", 0)
    /\ users = << >>
    /\ nearest = NoCall
    /\ registerReq = NoRegistrations

NextRegister ==
    \/ RegisterCheck
    \/ RegisterInsert

SpecRegister == InitRegister /\ [][NextRegister]_vars

\* ===== claims ==================================================================
TerminalPaymentStatuses == {"successful", "failed", "cancelled"}
CollectorStatuses == {"assigned", "in_progress", "completed"}

\* spec PAYMENT_CONFIRMED: the report is 'pending', has a successful payment
\* and no collector
PaidUnassigned(id) ==
    /\ ReportExists(id)
    /\ garbage_reports[id].status = "pending"
    /\ garbage_reports[id].assigned_collector_id = NULL
    /\ SuccessfulPaymentsOf(id) # {}

\* the step answers collector c's claim (the write of PATCH /:id/assign ends)
ClaimAnswered(c) == assignReq[c] # IdleAssign /\ assignReq'[c] = IdleAssign

\* C1: in every reachable state a report has an assigned collector iff its
\* status is assigned, in_progress or completed.
C1_CollectorIffCollectorStatus ==
    \A id \in 1..Len(garbage_reports) :
        (garbage_reports[id].assigned_collector_id # NULL)
            <=> (garbage_reports[id].status \in CollectorStatuses)

\* C2: of the concurrent claims on one paid report exactly one succeeds: a
\* claim is answered with success only while the report has no collector, so
\* the winner is never overwritten.
C2_ExactlyOneClaimWins ==
    [][\A c \in Collectors :
          (ClaimAnswered(c) /\ res' = Reply("assign", 200))
              => garbage_reports[assignReq[c].report].assigned_collector_id = NULL]_vars

\* C3: reconciling the same reference and terminal status more than once
\* notifies the resident once: no payment ever has two 'payment confirmed' or
\* two 'payment failed' notifications.
C3_NotifiedOncePerOutcome ==
    \A p \in PaymentRefs : sms[p].successful <= 1 /\ sms[p].failed <= 1

\* C4: in every reachable state a report has at most one successful payment.
C4_AtMostOneSuccessfulPayment ==
    \A id \in 1..Len(garbage_reports) : Cardinality(SuccessfulPaymentsOf(id)) <= 1

\* C5: a valid initiation on a report that already has a successful payment is
\* answered 400 'Report already paid', inserts no payment and calls no gateway.
C5_PaidReportRefusesInitiation ==
    [][\A u \in Residents, id \in ReportIds, t \in Times :
          (ReportExists(id) /\ SuccessfulPaymentsOf(id) # {}
             /\ initiatePayment(u, id, NULL, Len(payments) + 1, "none", t))
              => (res' = Reply("initiate", 400) /\ UNCHANGED <<payments, gatewayReqs>>)]_vars

\* C6: a payment whose status is successful, failed or cancelled keeps that
\* status in every later step.
C6_TerminalPaymentStatusIsFinal ==
    [][\A p \in 1..Len(payments) :
          payments[p].payment_status \in TerminalPaymentStatuses
              => payments'[p].payment_status = payments[p].payment_status]_vars

\* C7: a FAILED callback for a reference whose payment is successful changes
\* neither the payment nor the report and starts no notification.
C7_FailedAfterSuccessfulIsNoOp ==
    [][\A h \in Hooks, g \in Gateways, ref \in HookRefs, t \in Times :
          \A raw \in GatewayStatuses(g) :
            (PaymentExists(ref) /\ payments[ref].payment_status = "successful"
               /\ MapStatus(g, raw) = "failed"
               /\ hookReceive(h, g, "none", ref, raw, FeePaid, t))
                => UNCHANGED <<payments, garbage_reports, hook, sms>>]_vars

\* C8: every step that moves a report into 'assigned' starts from the
\* paid-and-unassigned state.
C8_AssignedOnlyFromPaidUnassigned ==
    [][\A id \in 1..Len(garbage_reports) :
          (garbage_reports[id].status # "assigned" /\ garbage_reports'[id].status = "assigned")
              => PaidUnassigned(id)]_vars

\* C9: a claim on a paid-and-unassigned report is not refused, whatever other
\* payments the report has.
C9_PaidReportIsClaimable ==
    [][\A c \in Collectors, id \in ReportIds :
          (PaidUnassigned(id) /\ assignFetch(c, id)) => assignReq'[c] = [report |-> id]]_vars

\* C10: a claim on a report that is not paid-and-unassigned is answered with
\* an error and leaves the report as it was.
C10_ClaimOnUnavailableReportFails ==
    [][\A c \in Collectors :
          (ClaimAnswered(c) /\ ~PaidUnassigned(assignReq[c].report))
              => (res'.code >= 400 /\ UNCHANGED garbage_reports)]_vars

\* ----- C11 .. C20 ---------------------------------------------------------------
Acknowledged == res'.op = "webhook" /\ res'.code \in 200..299

\* C11: a callback whose reference matches no payment is acknowledged with a
\* 2xx answer and changes no payment, no report, no notification count and
\* starts no further processing.
C11_UnknownReferenceAcknowledged ==
    [][\A h \in Hooks, g \in Gateways, ref \in HookRefs, t \in Times :
          \A raw \in GatewayStatuses(g) :
            (~PaymentExists(ref) /\ hookReceive(h, g, "none", ref, raw, FeePaid, t))
                => (Acknowledged /\ UNCHANGED <<payments, garbage_reports, sms, hook>>)]_vars

\* a callback has been acknowledged while no payment exists that it could match
C11_Witness ==
    /\ res = Reply("webhook", 200)
    /\ payments = << >>
    /\ garbage_reports # << >>

\* C12 as stated: every answer of a webhook is a 2xx acknowledgement.
C12_EveryCallbackAcknowledged ==
    res.op = "webhook" => res.code \in 200..299

\* C12, amended: a callback that passed the request checks (Flutterwave: the
\* signature; Pesapal: both IPN parameters) is always acknowledged with 2xx,
\* whatever the payment update, the report update, the resident lookup or the
\* notification did and whatever was thrown on the way.
C12_AcceptedCallbackAcknowledged ==
    [][/\ \A h \in Hooks, g \in Gateways, t \in Times :
            /\ \A fault \in {"payload", "db"} :
                  hookReceive(h, g, fault, NULL, "unknown", FeePaid, t) => Acknowledged
            /\ \A ref \in HookRefs, raw \in GatewayStatuses(g) :
                  hookReceive(h, g, "none", ref, raw, FeePaid, t)
                      => (hook'[h].pc # "idle" \/ Acknowledged)
       /\ \A h \in Hooks, updateOK \in BOOLEAN :
            hookUpdateReport(h, updateOK) => hook'[h].pc = "notify"
       /\ \A h \in Hooks, fault \in {"none", "resident", "message", "send"} :
            hookNotify(h, fault) => (hook'[h].pc = "idle" /\ Acknowledged)]_vars

\* a callback was processed to its end, notification included, and acknowledged
C12_Witness ==
    /\ res = Reply("webhook", 200)
    /\ \A h \in Hooks : hook[h] = IdleHook
    /\ \E p \in PaymentRefs : sms[p].successful + sms[p].failed > 0

Rejected401 ==
    res' = Reply("webhook", 401) /\ UNCHANGED <<payments, garbage_reports, sms, hook>>

\* C13: a Flutterwave callback whose verif-hash differs from the configured
\* secret hash, or that arrives while no secret hash is configured, is answered
\* 401 and changes no payment, no report and no notification count.
C13_BadSignatureRejected ==
    [][\A h \in Hooks, signature \in Signatures, secretHash \in SecretHashes, t \in Times :
          (secretHash = NULL \/ signature # secretHash)
            => /\ \A fault \in {"payload", "db"} :
                    handleFlutterwaveWebhook(h, signature, secretHash, fault, NULL, "unknown", FeePaid, t)
                        => Rejected401
               /\ \A ref \in HookRefs, raw \in FlutterwaveStatuses :
                    handleFlutterwaveWebhook(h, signature, secretHash, "none", ref, raw, FeePaid, t)
                        => Rejected401]_vars

\* a callback was refused with 401 while payments existed that it could have changed
C13_Witness ==
    /\ res = Reply("webhook", 401)
    /\ payments # << >>

LogsOf(id) == {l \in 1..Len(collection_logs) : collection_logs[l].report_id = id}

\* C14: a gateway callback never changes the status of a report that is
\* assigned, in_progress, completed or cancelled.
C14_CallbackLeavesClaimedReport ==
    [][\A h \in Hooks, updateOK \in BOOLEAN :
          hookUpdateReport(h, updateOK)
              => \A id \in 1..Len(garbage_reports) :
                    garbage_reports[id].status # "pending"
                        => garbage_reports'[id].status = garbage_reports[id].status]_vars

\* C15: a cancelled report stays cancelled in every later step.
C15_CancelledIsTerminal ==
    [][\A id \in 1..Len(garbage_reports) :
          garbage_reports[id].status = "cancelled"
              => garbage_reports'[id].status = "cancelled"]_vars

\* the start event's guard: the report is assigned, and to the actor
StartAllowed(u, id) ==
    /\ ReportExists(id)
    /\ garbage_reports[id].status = "assigned"
    /\ garbage_reports[id].assigned_collector_id = u

C17_CompletedOnlyFromInProgress ==
    [][\A id \in 1..Len(garbage_reports) :
          (garbage_reports[id].status # "completed"
             /\ garbage_reports'[id].status = "completed")
              => garbage_reports[id].status = "in_progress"]_vars

\* C18: a well-formed verifyCollection by a collector the report is not
\* assigned to, or for a report that does not exist, is answered 404, inserts
\* no collection log and leaves the reports as they were.
C18_VerifyOnlyByAssignedCollector ==
    [][\A c \in Collectors, id \in ReportIds, t \in Times :
          \A fault \in {"none", "log", "update"} :
            (~(ReportExists(id) /\ garbage_reports[id].assigned_collector_id = c)
               /\ verifyCollection(c, id, 1, 1, 1, fault, t))
                => (res' = Reply("verify", 404)
                    /\ UNCHANGED <<garbage_reports, collection_logs>>)]_vars

\* a verification was refused although every report exists and one of them is
\* assigned to a collector
C18_Witness ==
    /\ res = Reply("verify", 404)
    /\ Len(garbage_reports) = MaxReports
    /\ \E id \in 1..Len(garbage_reports) :
          /\ garbage_reports[id].status = "assigned"
          /\ garbage_reports[id].assigned_collector_id # NULL
    /\ collection_logs = << >>

\* C19: in every reachable state a completed report has exactly one
\* collection log and no report has more than one.
C19_OneCollectionEventPerCompletedReport ==
    \A id \in 1..Len(garbage_reports) :
        /\ Cardinality(LogsOf(id)) <= 1
        /\ garbage_reports[id].status = "completed" => Cardinality(LogsOf(id)) = 1

\* the cancel event's guard: the actor is the reporter and the report is
\* pending without a collector (there is no admin among the user types)
CancelAllowed(u, id) ==
    /\ ReportExists(id)
    /\ garbage_reports[id].resident_id = u
    /\ garbage_reports[id].status = "pending"
    /\ garbage_reports[id].assigned_collector_id = NULL

\* C20: a report becomes cancelled only from pending without a collector, and
\* a cancel by an actor who is not the reporter, or of a report that is
\* assigned, in_progress or completed, is answered with an error and leaves
\* the reports as they were.
C20_CancelOnlyByReporterWhilePending ==
    [][/\ \A id \in 1..Len(garbage_reports) :
            (garbage_reports[id].status # "cancelled"
               /\ garbage_reports'[id].status = "cancelled")
                => (garbage_reports[id].status = "pending"
                    /\ garbage_reports[id].assigned_collector_id = NULL)
       /\ \A u \in Users, id \in ReportIds, t \in Times :
            (~CancelAllowed(u, id) /\ updateStatus(u, id, "cancelled", "none", t))
                => (res'.code >= 400 /\ UNCHANGED garbage_reports)]_vars

\* ----- C21 .. C30 ---------------------------------------------------------------
ActiveOfType(token, user_type) ==
    /\ token \in DOMAIN users
    /\ users[token].is_active
    /\ users[token].user_type = user_type

\* C21: a well-formed report submission by a resident adds exactly one report:
\* pending, without a collector, with the caller as its resident, and with the
\* fee 5000 unless DEFAULT_COLLECTION_FEE configures another amount; an
\* invalid submission adds no report.
C21_SubmitCreatesOnePendingReport ==
    [][\A token \in Tokens, env \in Environments, longitude \in Longitudes,
         latitude \in Latitudes, t \in Times :
          /\ (ActiveOfType(token, "resident")
                /\ postReport(token, env, longitude, latitude, "none", t))
               => /\ Len(garbage_reports') = Len(garbage_reports) + 1
                  /\ SubSeq(garbage_reports', 1, Len(garbage_reports)) = garbage_reports
                  /\ LET report == garbage_reports'[Len(garbage_reports')] IN
                       /\ report.status = "pending"
                       /\ report.assigned_collector_id = NULL
                       /\ report.resident_id = token
                       /\ report.payment_amount =
                             IF env = EnvFee(<<7, 0, 0, 0>>) THEN 7000 ELSE 5000
          /\ postReport(token, env, longitude, latitude, "invalid", t)
               => (garbage_reports' = garbage_reports /\ res'.code >= 400)]_vars

\* reports were submitted under the default fee and under a configured one
C21_Witness ==
    /\ res = Reply("createReport", 201)
    /\ \E id \in 1..Len(garbage_reports) : garbage_reports[id].payment_amount = 5000
    /\ \E id \in 1..Len(garbage_reports) : garbage_reports[id].payment_amount = 7000

\* the call is refused by a guard and changes nothing
RejectedByGuard(op) ==
    /\ res'.op = op
    /\ res'.code \in {401, 403}
    /\ UNCHANGED <<garbage_reports, payments, collection_logs, assignReq, hook, sms,
                   gatewayReqs, users, nearest, registerReq>>

\* C22: report creation and payment initiation by anyone but an active
\* resident, and claim, location update and collection verification by anyone
\* but an active collector, are refused (401 or 403) and change no state; so
\* is every authenticated operation, the status route included, when the
\* caller is deactivated.
C22_RoleGuards ==
    [][\A token \in Tokens, t \in Times :
          /\ ~ActiveOfType(token, "resident")
               => /\ postReport(token, EnvUnset, 1, 1, "none", t)
                       => RejectedByGuard("createReport")
                  /\ \A id \in ReportIds :
                       postInitiate(token, id, NULL, Len(payments) + 1, "none", t) => RejectedByGuard("initiate")
          /\ ~ActiveOfType(token, "collector")
               => /\ \A id \in ReportIds : patchAssign(token, id) => RejectedByGuard("assign")
                  /\ \A latitude \in Latitudes :
                       patchLocation(token, latitude, 1, "none", t)
                           => RejectedByGuard("location")
                  /\ \A id \in ReportIds :
                       postVerify(token, id, 1, 1, 1, "none", t) => RejectedByGuard("verify")
          /\ (token \in DOMAIN users /\ ~users[token].is_active)
               => \A id \in ReportIds, status \in {"bogus", "in_progress"} :
                     patchStatus(token, id, status, "none", t) => RejectedByGuard("status")]_vars

\* a deactivated user was refused by the status route (which has no role
\* guard) while an active collector holds a report, an active resident has
\* added a report and a payment, and a collector has sent a location
C22_Witness ==
    /\ res = Reply("status", 403)
    /\ \E c \in Collectors : ~users[c].is_active
    /\ \E c \in Collectors, id \in 1..Len(garbage_reports) :
          users[c].is_active /\ garbage_reports[id].assigned_collector_id = c
    /\ \E c \in Collectors : users[c].current_location # NoLocation
    /\ Len(garbage_reports) > 1
    /\ Len(payments) > 1

\* the step is a ranking call that returns something new; its rows are judged
\* against the tables of the moment (the call changes no table)
Ranked == nearest' # nearest

\* the collectors the ranking is meant to consider
Eligible(u) ==
    /\ users[u].user_type = "collector"
    /\ users[u].is_active
    /\ users[u].current_location # NoLocation

\* C23: every row of a ranking is a collector that is active and has a current
\* location; there are at most 5 rows; with no such collector, or for an
\* unknown report, the ranking is empty.
C23_OnlyEligibleAtMostLimit ==
    [][Ranked =>
          LET rows == nearest'.rows IN
          /\ \A i \in 1..Len(rows) :
                rows[i].collector_id \in DOMAIN users /\ Eligible(rows[i].collector_id)
          /\ Len(rows) =< LIMIT
          /\ ((\A u \in DOMAIN users : ~Eligible(u)) \/ ~ReportExists(nearest'.report_uuid))
                => rows = << >>]_vars

\* a ranking returned as many rows as the limit allows while some user was
\* deactivated
C23_Witness ==
    /\ Len(nearest.rows) = LIMIT
    /\ \E u \in DOMAIN users : ~users[u].is_active /\ users[u].current_location # NoLocation

\* C24: the rows of a ranking come in non-decreasing distance, each with the
\* distance of its collector from the report, and no eligible collector left
\* out is nearer than one that is returned; collectors are left out only when
\* the limit is reached.
C24_SortedNearestFirst ==
    [][Ranked =>
          LET rows == nearest'.rows
              id == nearest'.report_uuid
              returned == {rows[i].collector_id : i \in 1..Len(rows)}
          IN  /\ \A i \in 1..Len(rows) :
                    rows[i].distance_meters
                        = Distance(users[rows[i].collector_id].current_location,
                                   garbage_reports[id].location)
              /\ \A i, j \in 1..Len(rows) :
                    i < j => rows[i].distance_meters =< rows[j].distance_meters
              /\ \A u \in DOMAIN users :
                    (ReportExists(id) /\ Eligible(u) /\ u \notin returned)
                        => /\ Len(rows) = LIMIT
                           /\ \A i \in 1..Len(rows) :
                                 rows[i].distance_meters
                                     =< Distance(users[u].current_location,
                                                 garbage_reports[id].location)]_vars

\* a ranking left a collector out and returned collectors at two distances
C24_Witness ==
    /\ Len(nearest.rows) = LIMIT
    /\ \A u \in DOMAIN users : Eligible(u)
    /\ nearest.rows[1].distance_meters < nearest.rows[LIMIT].distance_meters

\* C25: rows of a ranking at the same distance come in the order of their
\* collector ids (so the same tables always give the same ranking, and the id
\* decides who is left out at the limit).
C25_TiesByCollectorId ==
    [][Ranked =>
          LET rows == nearest'.rows
              id == nearest'.report_uuid
          IN  /\ \A i, j \in 1..Len(rows) :
                    (i < j /\ rows[i].distance_meters = rows[j].distance_meters)
                        => rows[i].collector_id < rows[j].collector_id
              /\ \A u \in DOMAIN users, i \in 1..Len(rows) :
                    (Eligible(u) /\ u \notin {rows[k].collector_id : k \in 1..Len(rows)}
                       /\ rows[i].distance_meters
                             = Distance(users[u].current_location, garbage_reports[id].location))
                        => rows[i].collector_id < u]_vars

\* the staleness window of the claim, in ticks of the model's clock
StalenessWindow == MaxTime

\* C26: a ranking returns no collector whose last location update is older
\* than the staleness window at the time of the call.
C26_StaleCollectorsExcluded ==
    [][Ranked =>
          \A i \in 1..Len(nearest'.rows) :
              nearest'.asked_at - users[nearest'.rows[i].collector_id].updated_at
                  =< StalenessWindow]_vars

C28_NotificationFailureKeepsState ==
    [][\A h \in Hooks, fault \in {"resident", "message", "send"} :
          hookNotify(h, fault)
              => (Acknowledged /\ UNCHANGED <<payments, garbage_reports>>)]_vars

\* a callback made a payment successful, issued no notification and was
\* acknowledged
C28_Witness ==
    /\ res = Reply("webhook", 200)
    /\ \A h \in Hooks : hook[h] = IdleHook
    /\ \E p \in 1..Len(payments) :
          /\ payments[p].payment_status = "successful"
          /\ sms[p].successful = 0

\* C29: a callback that made a payment successful or failed, and for whose
\* payment no notification of that kind was issued before, has issued exactly
\* one notification of that kind and none of the other when it ends; a
\* callback that maps to processing or cancelled issues none and ends at once.
C29_OneNotificationPerOutcome ==
    [][/\ \A h \in Hooks :
            (hook[h].pc = "notify" /\ hook'[h].pc = "idle"
               /\ sms[hook[h].ref][hook[h].paymentStatus] = 0)
                => sms' = [sms EXCEPT ![hook[h].ref][hook[h].paymentStatus] = 1]
       /\ \A h \in Hooks, g \in Gateways, ref \in HookRefs, t \in Times :
            \A raw \in GatewayStatuses(g) :
              (MapStatus(g, raw) \in {"processing", "cancelled"}
                 /\ hookReceive(h, g, "none", ref, raw, FeePaid, t))
                  => UNCHANGED <<sms, hook>>]_vars

\* C30: a report update that fails after the payment was made successful is
\* tried again: the callback does not go on to the notification while the
\* report update has not succeeded.
C30_FailedReportUpdateRetried ==
    [][\A h \in Hooks : hookUpdateReport(h, FALSE) => hook'[h].pc = "report"]_vars

\* ----- C31 .. C40 ----------------------------------------------------------------
\* the success value of each gateway's vocabulary
SuccessValue(g) == IF g = "flutterwave" THEN "successful" ELSE "Completed"

\* C31: every gateway status value, unknown and missing ones included, is
\* mapped to one of pending, processing, successful, failed, cancelled; every
\* payment a callback writes has one of these statuses, and a callback writes
\* 'successful' to a payment only when the gateway reported its success value
\* ('successful' for Flutterwave, 'Completed' for Pesapal).
C31_StatusMappingTotal ==
    [][/\ \A g \in Gateways : \A raw \in GatewayStatuses(g) :
            /\ MapStatus(g, raw) \in PaymentStatuses
            /\ MapStatus(g, raw) = "successful" <=> raw = SuccessValue(g)
       /\ \A p \in 1..Len(payments) :
            /\ payments'[p].payment_status \in PaymentStatuses
            /\ (payments'[p] # payments[p] /\ payments'[p].payment_status = "successful")
                 => \E h \in Hooks, g \in Gateways, t \in Times :
                       hookReceive(h, g, "none", p, SuccessValue(g), FeePaid, t)]_vars

\* a callback with a status outside the known ones left its payment in
\* processing, and another payment was made successful
C31_Witness ==
    /\ Len(payments) = 2
    /\ payments[1].payment_status = "processing"
    /\ payments[2].payment_status = "successful"
    /\ \A h \in Hooks : hook[h] = IdleHook

\* the scan and the report of a collection log
ScanDistance(l) ==
    Distance(collection_logs[l].collection_location,
             garbage_reports[collection_logs[l].report_id].location)

\* C32: every collection log created by a successful verification carries in
\* distance_from_report the distance between the scan location and the
\* location of its report.
C32_DistanceFromReportRecorded ==
    \A l \in 1..Len(collection_logs) :
        collection_logs[l].distance_from_report = <<ScanDistance(l)>>

\* C34: a verification that answers success has left the report completed with
\* its completion time set, and a step that creates a collection log leaves
\* the log's report completed: the log and the status change are applied
\* together or not at all.
C34_LogAndCompletionTogether ==
    [][LET created == Len(collection_logs') > Len(collection_logs)
           id == collection_logs'[Len(collection_logs')].report_id
       IN  /\ (res' = Reply("verify", 200) /\ res' # res) => created
           /\ created => /\ garbage_reports'[id].status = "completed"
                          /\ garbage_reports'[id].completed_at # NULL]_vars

\* C33: a response produced by the global error handler contains a stack
\* field only when NODE_ENV is 'development'.
C33_StackOnlyInDevelopment ==
    [][\A err \in Errors, NODE_ENV \in NodeEnvs :
          errorHandler(err, NODE_ENV)
              => ("stack" \in DOMAIN res'.body => NODE_ENV = "development")]_vars

\* in development an expired token was answered 401 with the stack
C33_Witness ==
    /\ res.op = "error"
    /\ res.code = 401
    /\ "stack" \in DOMAIN res.body

\* C35: the payment that reaches successful covers the fee of its report: its
\* amount equals the report's payment_amount, and the amount and the currency
\* the gateway callback reported equal those of the stored payment.
C35_SuccessfulPaymentCoversFee ==
    \A p \in 1..Len(payments) :
        payments[p].payment_status = "successful"
            => /\ payments[p].amount = garbage_reports[payments[p].report_id].payment_amount
               /\ payments[p].webhook_response.amount = payments[p].amount
               /\ payments[p].webhook_response.currency = payments[p].currency

\* C36: a callback whose status does not map to successful leaves every report
\* unchanged: its payment update touches no report and is not followed by the
\* report update, which only callbacks that mapped to successful perform. A
\* callback modifies the payment matched by its reference and no other
\* payment, in its payment update and in none of its later steps.
C36_OnlyMatchedPaymentModified ==
    [][/\ \A h \in Hooks, g \in Gateways, ref \in HookRefs, t \in Times :
            \A raw \in GatewayStatuses(g) :
               hookReceive(h, g, "none", ref, raw, FeePaid, t)
                  => /\ Len(payments') = Len(payments)
                     /\ \A p \in 1..Len(payments) : p # ref => payments'[p] = payments[p]
                     /\ UNCHANGED garbage_reports
                     /\ MapStatus(g, raw) # "successful" => hook'[h].pc # "report"
       /\ \A h \in Hooks, updateOK \in BOOLEAN :
            hookUpdateReport(h, updateOK)
               => (hook[h].paymentStatus = "successful" /\ UNCHANGED payments)
       /\ \A h \in Hooks, fault \in {"none", "resident", "message", "send"} :
            hookNotify(h, fault) => UNCHANGED <<payments, garbage_reports>>]_vars

\* a 'failed' callback arrived for the payment of a report a collector had
\* claimed: the payment is failed, the report is still assigned and the other
\* payment is as it was
C36_Witness ==
    /\ res = Reply("webhook", 200)
    /\ \A h \in Hooks : hook[h] = IdleHook
    /\ Len(payments) = 2
    /\ payments[1].payment_status = "failed"
    /\ sms[1].failed = 1
    /\ garbage_reports[payments[1].report_id].status = "assigned"
    /\ payments[2].payment_status = "successful"

\* C37: a well-formed payment initiation for a report that does not exist or
\* belongs to another resident answers 404 and creates no payment; it answers
\* success only for an existing report of the calling resident. Every payment
\* it creates is pending, belongs to that report and resident, and has a
\* reference no other payment has.
C37_InitiationOnlyForOwnReport ==
    [][\A u \in {r \in DOMAIN users : users[r].user_type = "resident"}, id \in ReportIds,
          txRef \in 1..(Len(payments) + 1), t \in Times,
          fault \in {"none", "insert", "gateway"} :
          initiatePayment(u, id, NULL, txRef, fault, t)
             => LET own == ReportExists(id) /\ garbage_reports[id].resident_id = u
                    new == payments'[Len(payments')]
                IN  /\ ~own => (res' = Reply("initiate", 404) /\ UNCHANGED payments)
                    /\ res' = Reply("initiate", 200) => own
                    /\ payments' # payments
                         => /\ payments' = Append(payments, new)
                            /\ new.payment_status = "pending"
                            /\ new.report_id = id
                            /\ new.resident_id = u
                            /\ \A p \in 1..Len(payments) : payments[p].flw_ref # new.flw_ref]_vars

\* the second resident asked to pay for a report of the first and was answered
\* 404, after each of them had started an attempt for a report of their own
C37_Witness ==
    /\ res = Reply("initiate", 404)
    /\ Len(garbage_reports) = MaxReports
    /\ Len(payments) >= 2
    /\ \A p \in 1..Len(payments) :
          /\ payments[p].payment_status = "pending"
          /\ payments[p].resident_id = garbage_reports[payments[p].report_id].resident_id
    /\ \E p, q \in 1..Len(payments) : payments[p].resident_id # payments[q].resident_id

\* C38: in every state reached by initiations and gateway callbacks, the
\* completed_at of a payment is set if and only if the payment is successful.
C38_CompletedAtIffSuccessful ==
    \A p \in 1..Len(payments) :
        payments[p].completed_at # NULL <=> payments[p].payment_status = "successful"

\* a payment that a callback had made successful was made failed by a later
\* callback, beside a payment that is successful
C38_Witness ==
    \E p, q \in 1..Len(payments) :
        /\ payments[p].payment_status = "failed"
        /\ sms[p].successful = 1
        /\ payments[p].completed_at = NULL
        /\ payments[q].payment_status = "successful"
        /\ payments[q].completed_at # NULL

\* C39: when the call of the geospatial function fails, GET /nearby still
\* answers success, with at most 20 reports, all of them pending; on either
\* path every report it returns is one a collector may claim: it is pending,
\* has no collector and has a successful payment.
C39_NearbyReturnsClaimableReports ==
    [][\A c \in Collectors, latitude \in QueryNumbers \ {<< >>}, longitude \in {<<1>>},
          radius \in QueryNumbers, fault \in {"none", "rpc"} :
          getNearby(c, latitude, longitude, radius, fault)
             => /\ res'.code = 200
                /\ fault = "rpc"
                     => /\ Cardinality(res'.reports) =< FALLBACK_LIMIT
                        /\ \A id \in res'.reports : garbage_reports[id].status = "pending"
                /\ \A id \in res'.reports : PaidUnassigned(id)]_vars

\* C40: no two users share a phone number; a registration for a phone number
\* that is registered creates no user and is answered with an error, whether
\* the number was registered before the request arrived or by a concurrent
\* registration between the request's check and its insert.
C40_PhoneNumbersUnique ==
    [][/\ \A u, v \in DOMAIN users' :
            users'[u].phone_number = users'[v].phone_number => u = v
       /\ \A r \in Registrations, phone_number \in PhoneNumbers, user_type \in UserTypes,
             latitude \in Coordinates({1}) :
            (usersWithPhone(phone_number) # {}
               /\ registerCheck(r, phone_number, user_type, latitude, 1, "none"))
                => (res' = Reply("register", 400) /\ UNCHANGED <<users, registerReq>>)
       /\ \A r \in Registrations, fault \in {"none", "db"}, t \in Times :
            (registerReq[r] # IdleRegister /\ usersWithPhone(registerReq[r].phone_number) # {}
               /\ registerInsert(r, fault, t))
                => (res'.code >= 400 /\ UNCHANGED users)]_vars

\* of two concurrent registrations for one phone number the second insert was
\* refused by the store: one user has the number
C40_Witness ==
    /\ res = insertErrorReply("duplicate key value violates unique constraint")
    /\ \A r \in Registrations : registerReq[r] = IdleRegister
    /\ Cardinality(DOMAIN users) = 1

====
